---- MODULE Spec2Model ----
EXTENDS Integers, Sequences, FiniteSets, TLC

(***************************************************************************)
(* Model of tune-in-claude's PTY wrapper (src/src/claude-wrapper.ts):      *)
(* hook injection into ~/.claude/settings.json, the session identifier     *)
(* file, the keystroke-driven activity engine and the cleanup paths.       *)
(***************************************************************************)

\* ------------------------------------------------------------ bounds
MaxChunkLen == 2        \* longest stdin chunk, in bytes
MaxCount == 5           \* charCount is not driven past this
MaxSigints == 1         \* SIGINTs delivered to one wrapper
MaxTimers == 2          \* timeout handles that can be pending at once
TickMs == 3000          \* granularity of the passage of time
ClockStepMs == 100000   \* granularity of Date.now() for the remote backend
MaxClockMs == 400000    \* Date.now() is not driven past this
MaxTokens == 3          \* access tokens the accounts service issues
MaxInFlight == 2        \* daemon handlers awaiting their backend call at once

\* ------------------------------------------------------------ program constants
TYPING_PLAY_THRESHOLD == 3
TYPING_IDLE_MS == 6000
RefreshMarginMs == 5 * 60 * 1000
PID_FILE == "tune-in-claude.pid"

Sessions == {1, 2}
Events == {"PreToolUse", "Stop", "Notification"}
TimerIds == 1..MaxTimers

\* claude.pid of the child spawned by wrapper session s; 3 stands for a claude
\* session the user runs outside any wrapper.
ChildPid(s) == 1000 + s
UnwrappedClaude == ChildPid(3)

\* ------------------------------------------------------------ hook commands
\* The shell command of an injected hook: guard names the file whose content is
\* compared with $PPID, run is the player command after "&&".
spotifyPlayCmd(pidFile) == [guard |-> pidFile, run |-> "play"]
spotifyPauseCmd(pidFile) == [guard |-> pidFile, run |-> "pause"]

\* Mutant of GuardPasses: the command runs with no guard before it.
GuardAlwaysPasses(fileContent, ppid) == TRUE

\* [ "$(cat '<pidFile>' 2>/dev/null)" = "$PPID" ]: fileContent is {} when the
\* file does not exist (cat prints nothing), else {pid written in it}.
GuardPasses(fileContent, ppid) == fileContent = {ppid}

\* ------------------------------------------------------------ settings.json
\* A parsed settings object: `other` stands for every key but hooks, hooks
\* maps an event to its list of hook groups (present = the key exists).
NoList == [present |-> FALSE, groups |-> <<>>]
NoHooks == [e \in Events |-> NoList]
EmptyObject == [other |-> "", hasHooks |-> FALSE, hooks |-> NoHooks]

UserGroup(name) == [tuneIn |-> FALSE, command |-> [guard |-> "", run |-> name]]
TuneInGroup(cmd) == [tuneIn |-> TRUE, command |-> cmd]

\* The text of the file: absent, unparseable, or JSON text. fmt = "indent2" is
\* exactly the text JSON.stringify(val, null, 2) produces; fmt = "other" is any
\* other text that parses to val (compact, 4 spaces, trailing newline, ...).
AbsentFile == [kind |-> "absent", fmt |-> "none", val |-> EmptyObject]
GarbageFile == [kind |-> "garbage", fmt |-> "none", val |-> EmptyObject]
JsonText(fmt, val) == [kind |-> "json", fmt |-> fmt, val |-> val]

JSONStringify(obj) == JsonText("indent2", obj)

\* readSettings: JSON.parse of the file's text; a missing or unparseable file
\* is caught and read as {}.
readSettings(file) == IF file.kind = "json" THEN file.val ELSE EmptyObject

\* writeSettings(obj): the text the file holds after a successful write.
writeSettings(obj) == JSONStringify(obj)

\* Mutant of Push: the group is put in front of the list (unshift).
PushFront(list, group) == [present |-> TRUE, groups |-> <<group>> \o list.groups]

Push(list, group) == [present |-> TRUE, groups |-> Append(list.groups, group)]

\* Mutant of InjectedSettings: the pause hooks are added in no-pause mode too.
InjectedSettingsAlwaysPause(original, noPause, pidFile) ==
    [other |-> original.other, hasHooks |-> TRUE,
     hooks |-> [e \in Events |->
        IF e = "PreToolUse"
        THEN Push(original.hooks[e], TuneInGroup(spotifyPlayCmd(pidFile)))
        ELSE Push(original.hooks[e], TuneInGroup(spotifyPauseCmd(pidFile)))]]

\* The `updated` object injectHooks builds from a deep copy of `original`.
InjectedSettings(original, noPause, pidFile) ==
    [other |-> original.other, hasHooks |-> TRUE,
     hooks |-> [e \in Events |->
        IF e = "PreToolUse"
        THEN Push(original.hooks[e], TuneInGroup(spotifyPlayCmd(pidFile)))
        ELSE IF ~noPause
             THEN Push(original.hooks[e], TuneInGroup(spotifyPauseCmd(pidFile)))
             ELSE original.hooks[e]]]

\* Mutant of injectHooks: `updated` aliases `original` (no deep copy), so the
\* snapshot handed back carries the injected groups.
injectHooksAliased(file, noPause, pidFile) ==
    LET updated == InjectedSettings(readSettings(file), noPause, pidFile)
    IN  [written |-> writeSettings(updated), returned |-> updated]

\* injectHooks: `written` is the file's content after it, `returned` the
\* snapshot it hands back.
injectHooks(file, noPause, pidFile) ==
    LET original == readSettings(file)
        updated == InjectedSettings(original, noPause, pidFile)
    IN  [written |-> writeSettings(updated), returned |-> original]

\* restoreHooks(original): the content of the settings file after it; `current`
\* (the content before it) is not read by the code.
restoreHooks(current, original) == writeSettings(original)

HasTuneIn(file) ==
    /\ file.kind = "json"
    /\ \E e \in Events : \E i \in 1..Len(file.val.hooks[e].groups) :
          file.val.hooks[e].groups[i].tuneIn

\* ------------------------------------------------------------ starting files
UserObjects ==
    { EmptyObject,
      [other |-> "model", hasHooks |-> FALSE, hooks |-> NoHooks],
      [other |-> "", hasHooks |-> TRUE, hooks |-> NoHooks],
      [other |-> "model", hasHooks |-> TRUE,
       hooks |-> [NoHooks EXCEPT
                    !["PreToolUse"] = Push(NoList, UserGroup("lint")),
                    !["Stop"] = Push(NoList, UserGroup("notify"))]] }

WellFormedFiles == { JsonText(f, v) : f \in {"indent2", "other"}, v \in UserObjects }
StartingFiles == {AbsentFile, GarbageFile} \cup WellFormedFiles

\* ------------------------------------------------------------ stdin chunks
Bytes == {10, 13, 31, 32, 126, 127}
Chunks == UNION { [1..n -> Bytes] : n \in 0..MaxChunkLen }

\* Chunks that also hold the two bytes of a UTF-8 encoded U+00E9: the lead
\* byte 0xC3 and the continuation byte 0xA9.
RawBytes == Bytes \cup {195, 169}
RawChunks == UNION { [1..n -> RawBytes] : n \in 0..MaxChunkLen }

\* claude.write(data.toString()): the bytes the PTY receives for a chunk of
\* bytes below 0x80 and of two-byte UTF-8 sequences. The Buffer is decoded as
\* UTF-8 and the string is encoded again by the write: a byte below 0x80 and
\* a complete two-byte sequence come back as they were, a lead byte with no
\* continuation byte after it and a continuation byte with no lead before it
\* are decoded to U+FFFD, which is written as EF BF BD.
RECURSIVE PtyWrite(_)
PtyWrite(data) ==
    IF data = <<>> THEN <<>>
    ELSE LET b == Head(data)
         IN  IF b < 128 THEN <<b>> \o PtyWrite(Tail(data))
             ELSE IF /\ b \in 194..223
                     /\ Len(data) >= 2
                     /\ data[2] \in 128..191
                  THEN <<b, data[2]>> \o PtyWrite(SubSeq(data, 3, Len(data)))
                  ELSE <<239, 191, 189>> \o PtyWrite(Tail(data))

\* bytes.includes(0x0d) || bytes.includes(0x0a)
HasEnter(data) == \E i \in 1..Len(data) : data[i] = 13 \/ data[i] = 10

\* bytes.filter(b => b >= 0x20 && b < 0x7f)
Printable(data) == SelectSeq(data, LAMBDA b : b >= 32 /\ b < 127)

\* ------------------------------------------------------------ timers
\* timers[h] is the time in ms since timeout h was armed, -1 when h is not
\* pending (never armed, fired or cleared). Handle 0 is null.
NoTimers == [h \in TimerIds |-> -1]
\* Mutant of clearTimeout: the timeout stays pending.
clearTimeoutNoop(tm, h) == tm
clearTimeout(tm, h) == IF h \in TimerIds THEN [tm EXCEPT ![h] = -1] ELSE tm
FreeHandles(tm) == {h \in TimerIds : tm[h] = -1}
NewHandle(tm) == CHOOSE h \in FreeHandles(tm) : \A k \in FreeHandles(tm) : h <= k
Pending(tm) == {h \in TimerIds : tm[h] >= 0}
Due(tm) == {h \in TimerIds : tm[h] >= TYPING_IDLE_MS}

\* ------------------------------------------------------------ player backend
\* Outcomes of the OS command behind a backend call: it may fail (player gone,
\* no D-Bus, osascript error), or the player is taken to answer every call.
AnyBackend == {"ok", "fail"}
SoundBackend == {"ok"}

\* playSpotifyNative / pauseSpotifyNative run one OS command; `outcome` is how
\* that command went. Its failure is caught and reported as false.
playSpotifyNative(outcome) == IF outcome = "ok" THEN "true" ELSE "false"
pauseSpotifyNative(outcome) == IF outcome = "ok" THEN "true" ELSE "false"

\* Mutant of FireAndForget: the OS command is awaited with nothing around it.
FireAndForgetBare(cmd, outcome) == IF outcome = "ok" THEN "true" ELSE "rejected"

\* <native call>().catch(() => {}): what the promise the handler drops settles
\* to; "rejected" is a rejection nobody handles.
FireAndForget(cmd, outcome) ==
    LET result == IF cmd = "pause" THEN pauseSpotifyNative(outcome)
                  ELSE playSpotifyNative(outcome)
    IN  IF result = "rejected" THEN "undefined" ELSE result

\* The backend command behind each signal of the engine.
BackendCmd(signal) == IF signal = "idle-pause" THEN "pause" ELSE "play"

\* ------------------------------------------------------------ activity engine
\* The closure state of main(): e = [firstMessageSent, charCount, typingTimer,
\* timers]. Each handler returns [e |-> new state, signals |-> commands issued].
NewEngine ==
    [firstMessageSent |-> FALSE, charCount |-> 0, typingTimer |-> 0,
     timers |-> NoTimers]

onTypingPlay(noPause, avail) ==
    IF noPause \/ ~avail THEN <<>> ELSE <<"typing-play">>

\* Mutant of scheduleTypingPause: the previous timeout is not cleared.
scheduleTypingPauseNoClear(e, noPause, avail) ==
    IF noPause \/ ~avail THEN e
    ELSE LET h == NewHandle(e.timers)
         IN  [e EXCEPT !.timers = [e.timers EXCEPT ![h] = 0], !.typingTimer = h]

scheduleTypingPause(e, noPause, avail) ==
    LET cleared == clearTimeout(e.timers, e.typingTimer)
    IN  IF noPause \/ ~avail THEN [e EXCEPT !.timers = cleared]
        ELSE LET h == NewHandle(cleared)
             IN  [e EXCEPT !.timers = [cleared EXCEPT ![h] = 0], !.typingTimer = h]

\* Mutant of TypingHandler: typing is tracked before the first submission.
TypingHandlerNoFirstCheck(e, data, noPause, avail) ==
    LET n == Len(Printable(data))
        count == e.charCount + n
        counted == [e EXCEPT !.charCount = count]
    IN  IF n = 0 THEN [e |-> e, signals |-> <<>>]
        ELSE [e |-> IF count >= TYPING_PLAY_THRESHOLD
                    THEN scheduleTypingPause(counted, noPause, avail)
                    ELSE counted,
              signals |-> IF count = TYPING_PLAY_THRESHOLD
                          THEN onTypingPlay(noPause, avail) ELSE <<>>]

\* The stdin 'data' handler below its Enter branch (lines 202-219).
TypingHandler(e, data, noPause, avail) ==
    LET n == Len(Printable(data))
        count == e.charCount + n
        counted == [e EXCEPT !.charCount = count]
    IN  IF ~e.firstMessageSent \/ n = 0 THEN [e |-> e, signals |-> <<>>]
        ELSE [e |-> IF count >= TYPING_PLAY_THRESHOLD
                    THEN scheduleTypingPause(counted, noPause, avail)
                    ELSE counted,
              signals |-> IF count = TYPING_PLAY_THRESHOLD
                          THEN onTypingPlay(noPause, avail) ELSE <<>>]

\* Mutant of EnterHandler: the pending timeout is left to run.
EnterHandlerKeepTimer(e, noPause, avail) ==
    [e |-> [e EXCEPT !.firstMessageSent = TRUE, !.charCount = 0],
     signals |-> IF avail /\ ~noPause THEN <<"enter-play">> ELSE <<>>]

\* Mutant of EnterHandler: the play is issued in no-pause mode too.
EnterHandlerAlwaysPlay(e, noPause, avail) ==
    [e |-> [firstMessageSent |-> TRUE, charCount |-> 0,
            typingTimer |-> IF e.typingTimer # 0 THEN 0 ELSE e.typingTimer,
            timers |-> clearTimeout(e.timers, e.typingTimer)],
     signals |-> IF avail THEN <<"enter-play">> ELSE <<>>]

\* The Enter branch of the stdin 'data' handler (lines 194-200).
EnterHandler(e, noPause, avail) ==
    [e |-> [firstMessageSent |-> TRUE, charCount |-> 0,
            typingTimer |-> IF e.typingTimer # 0 THEN 0 ELSE e.typingTimer,
            timers |-> clearTimeout(e.timers, e.typingTimer)],
     signals |-> IF avail /\ ~noPause THEN <<"enter-play">> ELSE <<>>]

\* process.stdin.on('data', ...)
StdinHandler(e, data, noPause, avail) ==
    IF HasEnter(data) THEN EnterHandler(e, noPause, avail)
    ELSE TypingHandler(e, data, noPause, avail)

\* Mutant of TimeoutCallback: the counter is not reset.
TimeoutCallbackKeepCount(e, h) ==
    [e |-> [e EXCEPT !.typingTimer = 0,
                     !.timers = [e.timers EXCEPT ![h] = -1]],
     signals |-> <<"idle-pause">>]

\* The idle timeout's callback (lines 175-179).
TimeoutCallback(e, h) ==
    [e |-> [e EXCEPT !.typingTimer = 0, !.charCount = 0,
                     !.timers = [e.timers EXCEPT ![h] = -1]],
     signals |-> <<"idle-pause">>]

\* ------------------------------------------------------------ remote backend
\* The Config object: a field that is absent (or falsy) reads as 0; tokens are
\* numbered in the order the accounts service issued them.
NoConfig == [accessToken |-> 0, refreshToken |-> 0, expiresAt |-> 0]

\* expires_in of a token response, in seconds; NoExpiresIn is a response
\* without the field, whose expiry computes to NaN and is saved as null.
ExpiresIn == {200, 300, 400}
NoExpiresIn == -1
ExpiresAt(now, expires_in) ==
    IF expires_in = NoExpiresIn THEN 0 ELSE now + expires_in * 1000

\* Mutant of NeedsRefresh: a token expiring in exactly 5 minutes is refreshed.
NeedsRefreshInclusive(config, now) ==
    config.expiresAt = 0 \/ config.expiresAt <= now + RefreshMarginMs

\* !config.expiresAt || config.expiresAt < Date.now() + 5 * 60 * 1000
NeedsRefresh(config, now) ==
    config.expiresAt = 0 \/ config.expiresAt < now + RefreshMarginMs

\* !config.accessToken || !config.refreshToken, negated
Authenticated(config) == config.accessToken # 0 /\ config.refreshToken # 0

\* The config refreshAccessToken saves, given the response and the time it
\* arrived at.
refreshAccessToken(config, response, now) ==
    [config EXCEPT !.accessToken = response.access_token,
                   !.expiresAt = ExpiresAt(now, response.expires_in)]

\* HTTP status of the player request (0: no response at all), and what
\* playSpotify / pauseSpotify do with it: 404 and 403 are swallowed (play
\* warns), any other error is thrown.
Statuses == {0, 204, 403, 404, 500}

\* Mutant of PutResult: only 404 is swallowed.
PutResultOnly404(cmd, status) ==
    IF status = 204 THEN "ok"
    ELSE IF status = 404
         THEN (IF cmd = "play" THEN "warned" ELSE "ignored")
         ELSE "thrown"

PutResult(cmd, status) ==
    IF status = 204 THEN "ok"
    ELSE IF status \in {403, 404}
         THEN (IF cmd = "play" THEN "warned" ELSE "ignored")
         ELSE "thrown"

NoResponse == [access_token |-> 0, expires_in |-> NoExpiresIn]
NoCall == [cmd |-> "none", at |-> 0, before |-> NoConfig, refreshed |-> FALSE,
           response |-> NoResponse, respondedAt |-> 0, token |-> 0,
           after |-> NoConfig, status |-> 0, result |-> "none"]

\* ------------------------------------------------------------ daemon
\* The daemon processes that may be started on the host, named by their pid.
Daemons == {1, 2}

\* The state the constructor builds at time `now`.
NewDaemonState(now) == [playing |-> FALSE, mode |-> "native", lastUpdate |-> now]

\* Mutant of handleStartIssues: the play is issued whatever the state.
handleStartIssuesAlways(state) == TRUE

\* handleStart / handleStop go on to their backend call unless they return at
\* "Already playing" / "Already stopped".
handleStartIssues(state) == ~state.playing
handleStopIssues(state) == state.playing
HandlerIssues(cmd, state) ==
    IF cmd = "start" THEN handleStartIssues(state) ELSE handleStopIssues(state)

\* The backend call of a handler in `mode`: native takes an outcome of the OS
\* command, web-api a status of the player request. returned: the awaited
\* call did not throw; succeeded: the player did what was asked.
DaemonOutcomes(mode) == IF mode = "native" THEN AnyBackend ELSE Statuses
DaemonBackend(mode, cmd, outcome) ==
    IF mode = "native"
    THEN LET r == IF cmd = "start" THEN playSpotifyNative(outcome)
                  ELSE pauseSpotifyNative(outcome)
         IN  [returned |-> TRUE, succeeded |-> r = "true"]
    ELSE LET r == PutResult(IF cmd = "start" THEN "play" ELSE "pause", outcome)
         IN  [returned |-> r # "thrown", succeeded |-> r = "ok"]

\* The state after the awaited call of a handler: the two assignments below
\* it run when it did not throw.
HandlerUpdate(state, cmd, result, now) ==
    IF result.returned
    THEN [state EXCEPT !.playing = (cmd = "start"), !.lastUpdate = now]
    ELSE state

NoDone == [cmd |-> "none", issued |-> FALSE, before |-> NewDaemonState(0),
           after |-> NewDaemonState(0), succeeded |-> FALSE, answer |-> "none"]

\* ------------------------------------------------------------ state
VARIABLES
    settingsFile,     \* content of ~/.claude/settings.json
    pidFile,          \* content of PID_FILE: {} when absent, else {pid}
    pc,               \* where each wrapper process is in main()
    noPauseMode,      \* --no-pause was given
    spotifyAvailable, \* result of the startup probe
    child,            \* the spawned claude: "none", "alive", "dead"
    originalSettings, \* the snapshot injectHooks returned
    engine,           \* firstMessageSent, charCount, typingTimer and the timeouts
    pendingExits,     \* exit codes of the handlers awaiting cleanup's pause
    exitCode,         \* code the wrapper process ended with
    \* history, read by the properties only
    startFile,        \* settingsFile before any wrapper started
    injected,         \* injectHooks wrote the hooks of this session
    restored,         \* restoreHooks wrote the snapshot of this session
    cleanupCalls,     \* times cleanup() was entered
    cleanupPauses,    \* pauses cleanup() issued
    sigints,          \* SIGINTs delivered
    lastSignal,       \* last player command the wrapper issued
    burstPlays,       \* typing plays since charCount was last reset
    idlePauses,       \* idle pauses since the last counted input or submission
    sinceInput,       \* ms since the last counted input or submission
    rawTyped,         \* printable bytes received before the first submission
    lastHook,         \* what the last fired hook event did
    lastEvent,        \* what the engine's last handler run was and signalled
    backendFailed,    \* a backend call of the interactive session failed
    restoreFailed,    \* a restoreHooks write threw
    \* the remote (Web API) backend of src/src/spotify.ts
    tokenConfig,      \* parsed content of ~/.tune-in/config.json
    clock,            \* Date.now(), in ms
    issued,           \* last access token the accounts service issued
    lastCall,         \* what the last playSpotify / pauseSpotify call did
    \* the daemon (src/unnamed/part_000)
    dPidFile,         \* content of ~/.tune-in/daemon.pid: {} when absent
    dPc,              \* where each daemon process is in start()
    dState,           \* this.state of each daemon process
    dInflight,        \* handlers awaiting their backend call, oldest first
    dLastCmd,         \* last start / stop command received
    dLastBackend,     \* last backend command issued
    dDone,            \* what the last finished command handler did
    dFailed,          \* a backend call of the daemon did not succeed
    \* run mode (runCommand of src/src/index.ts)
    runPc,            \* where the run-mode wrapper is
    runMusic,         \* musicStarted
    runPending,       \* exit codes of the handlers awaiting pauseMusic()
    runExit,          \* code the run-mode wrapper ended with
    runSigints,       \* SIGINTs delivered to the run-mode wrapper
    runLocal,         \* useLocalMode
    runChild,         \* the spawned command: "none", "alive", "exited", "error"
    runCode,          \* what the handler of the child's end exits with
    runPauses,        \* pause commands run mode has sent to the backend
    garbled           \* last chunk the child received other than as it was read

fileVars == <<settingsFile, pidFile>>
procVars == <<pc, noPauseMode, spotifyAvailable, child, originalSettings,
              pendingExits, exitCode>>
histVars == <<startFile, injected, restored, cleanupCalls, cleanupPauses, sigints, lastSignal,
              burstPlays, idlePauses, sinceInput, rawTyped, lastHook,
              lastEvent, backendFailed, restoreFailed>>
obsVars == <<lastEvent, backendFailed, restoreFailed>>
remoteVars == <<tokenConfig, clock, issued, lastCall>>
daemonVars == <<dPidFile, dPc, dState, dInflight, dLastCmd, dLastBackend,
                dDone, dFailed>>
runVars == <<runPc, runMusic, runPending, runExit, runSigints, runLocal,
             runChild, runCode, runPauses>>
wrapVars == <<fileVars, procVars, engine, histVars, garbled>>
vars == <<wrapVars, remoteVars, daemonVars, runVars>>

NoHook == [ppid |-> 0, file |-> {}, issued |-> <<>>]
NoGarble == [read |-> <<>>, written |-> <<>>]
NoEvent == [kind |-> "none", signals |-> <<>>, hadTimer |-> FALSE]

InitWith(files) ==
    /\ settingsFile \in files
    /\ startFile = settingsFile
    /\ pidFile = {}
    /\ pc = [s \in Sessions |-> "idle"]
    /\ noPauseMode = [s \in Sessions |-> FALSE]
    /\ spotifyAvailable = [s \in Sessions |-> FALSE]
    /\ child = [s \in Sessions |-> "none"]
    /\ originalSettings = [s \in Sessions |-> EmptyObject]
    /\ engine = [s \in Sessions |-> NewEngine]
    /\ pendingExits = [s \in Sessions |-> {}]
    /\ exitCode = [s \in Sessions |-> -1]
    /\ injected = [s \in Sessions |-> FALSE]
    /\ restored = [s \in Sessions |-> FALSE]
    /\ cleanupCalls = [s \in Sessions |-> 0]
    /\ cleanupPauses = [s \in Sessions |-> 0]
    /\ sigints = [s \in Sessions |-> 0]
    /\ lastSignal = [s \in Sessions |-> "none"]
    /\ burstPlays = [s \in Sessions |-> 0]
    /\ idlePauses = [s \in Sessions |-> 0]
    /\ sinceInput = [s \in Sessions |-> 0]
    /\ rawTyped = [s \in Sessions |-> 0]
    /\ lastHook = NoHook
    /\ lastEvent = [s \in Sessions |-> NoEvent]
    /\ backendFailed = [s \in Sessions |-> FALSE]
    /\ restoreFailed = [s \in Sessions |-> FALSE]
    /\ tokenConfig = NoConfig
    /\ clock = 0
    /\ issued = 0
    /\ lastCall = NoCall
    /\ dPidFile = {}
    /\ dPc = [d \in Daemons |-> "off"]
    /\ dState = [d \in Daemons |-> NewDaemonState(0)]
    /\ dInflight = [d \in Daemons |-> <<>>]
    /\ dLastCmd = [d \in Daemons |-> "none"]
    /\ dLastBackend = [d \in Daemons |-> "none"]
    /\ dDone = [d \in Daemons |-> NoDone]
    /\ dFailed = [d \in Daemons |-> FALSE]
    /\ runPc = "idle"
    /\ runMusic = FALSE
    /\ runPending = {}
    /\ runExit = -1
    /\ runSigints = 0
    /\ runLocal = FALSE
    /\ runChild = "none"
    /\ runCode = -1
    /\ runPauses = 0
    /\ garbled = [s \in Sessions |-> NoGarble]

\* The settings file one user may have: none, or one with hooks of their own.
Init == InitWith({AbsentFile, JsonText("other", CHOOSE v \in UserObjects : v.hasHooks /\ v.other # "")})

\* Every starting state of the settings file.
InitFiles == InitWith(StartingFiles)

Min(a, b) == IF a < b THEN a ELSE b
Last(seq) == seq[Len(seq)]

\* ------------------------------------------------------------ startup
\* main() up to the spawn: argv is read, isSpotifyRunning()/openSpotify()
\* answer, and with a player available the music is started ("Start music
\* immediately"; awaited, a failure is caught).
Launch(s) ==
    /\ UNCHANGED <<remoteVars, daemonVars, runVars, garbled>>
    /\ pc[s] = "idle"
    /\ \E noPause \in BOOLEAN, avail \in BOOLEAN :
          /\ noPauseMode' = [noPauseMode EXCEPT ![s] = noPause]
          /\ spotifyAvailable' = [spotifyAvailable EXCEPT ![s] = avail]
          /\ lastSignal' = [lastSignal EXCEPT
                              ![s] = IF avail THEN "launch-play" ELSE @]
    /\ pc' = [pc EXCEPT ![s] = "spawn"]
    /\ UNCHANGED <<fileVars, child, originalSettings, pendingExits, exitCode,
                   engine, startFile, injected, restored, cleanupCalls, cleanupPauses, sigints,
                   burstPlays, idlePauses, sinceInput, rawTyped, lastHook, obsVars>>

\* pty.spawn throws: the catch prints the hint and calls process.exit(1).
SpawnFails(s) ==
    /\ UNCHANGED <<remoteVars, daemonVars, runVars, garbled>>
    /\ pc[s] = "spawn"
    /\ pc' = [pc EXCEPT ![s] = "exited"]
    /\ exitCode' = [exitCode EXCEPT ![s] = 1]
    /\ UNCHANGED <<fileVars, noPauseMode, spotifyAvailable, child,
                   originalSettings, pendingExits, engine, histVars>>

\* pty.spawn succeeds; PID_FILE is written; injectHooks; the state and the
\* handlers are set up: one synchronous run of main(). When writeSettings
\* throws inside injectHooks, main() rejects and main().catch exits with 1.
SpawnAndInject(s, writes) ==
    /\ UNCHANGED <<remoteVars, daemonVars, runVars, garbled>>
    /\ pc[s] = "spawn"
    /\ child' = [child EXCEPT ![s] = "alive"]
    /\ pidFile' = {ChildPid(s)}
    /\ LET r == injectHooks(settingsFile, noPauseMode[s], PID_FILE)
       IN  \E writeOk \in writes :
             IF writeOk
             THEN /\ settingsFile' = r.written
                  /\ originalSettings' = [originalSettings EXCEPT ![s] = r.returned]
                  /\ pc' = [pc EXCEPT ![s] = "running"]
                  /\ injected' = [injected EXCEPT ![s] = TRUE]
                  /\ UNCHANGED exitCode
             ELSE /\ pc' = [pc EXCEPT ![s] = "exited"]
                  /\ exitCode' = [exitCode EXCEPT ![s] = 1]
                  /\ UNCHANGED <<settingsFile, originalSettings, injected>>
    /\ engine' = [engine EXCEPT ![s] = NewEngine]
    /\ UNCHANGED <<noPauseMode, spotifyAvailable, pendingExits, startFile,
                   restored, cleanupCalls, cleanupPauses, sigints, lastSignal,
                   burstPlays, idlePauses, sinceInput, rawTyped, lastHook, obsVars>>

\* ------------------------------------------------------------ stdin and timers
\* One 'data' event of process.stdin, with a chunk of `chunks`. The chunk is
\* written to the PTY and
\* handled in one run of the event loop; `outcomes` is how the backend call
\* behind a signal may go. A rejection nobody handles ends the process with 1.
Stdin(s, chunks, outcomes) ==
    /\ UNCHANGED <<remoteVars, daemonVars, runVars>>
    /\ pc[s] = "running"
    /\ Pending(engine[s].timers) # TimerIds
    /\ \E data \in chunks :
         LET r == StdinHandler(engine[s], data, noPauseMode[s], spotifyAvailable[s])
         IN
         \E outcome \in IF r.signals # <<>> THEN outcomes ELSE {"ok"} :
         LET counted == r.e.charCount # engine[s].charCount
             reset == HasEnter(data) \/ counted
             plays == Len(SelectSeq(r.signals, LAMBDA x : x = "typing-play"))
             called == r.signals # <<>>
             settled == IF called
                        THEN FireAndForget(BackendCmd(Last(r.signals)), outcome)
                        ELSE "true"
         IN  /\ r.e.charCount <= MaxCount
             /\ garbled' = [garbled EXCEPT
                   ![s] = IF PtyWrite(data) = data THEN @
                          ELSE [read |-> data, written |-> PtyWrite(data)]]
             /\ engine' = [engine EXCEPT ![s] = r.e]
             /\ lastSignal' = [lastSignal EXCEPT
                   ![s] = IF called THEN Last(r.signals) ELSE @]
             /\ burstPlays' = [burstPlays EXCEPT
                   ![s] = IF HasEnter(data) THEN 0 ELSE @ + plays]
             /\ idlePauses' = [idlePauses EXCEPT ![s] = IF reset THEN 0 ELSE @]
             /\ sinceInput' = [sinceInput EXCEPT ![s] = IF reset THEN 0 ELSE @]
             /\ rawTyped' = [rawTyped EXCEPT
                   ![s] = IF HasEnter(data) THEN 0
                          ELSE IF ~engine[s].firstMessageSent
                               THEN Min(@ + Len(Printable(data)), MaxCount)
                               ELSE @]
             /\ lastEvent' = [lastEvent EXCEPT
                   ![s] = [kind |-> IF HasEnter(data) THEN "enter" ELSE "typing",
                           signals |-> r.signals,
                           hadTimer |-> Pending(engine[s].timers) # {}]]
             /\ backendFailed' = [backendFailed EXCEPT ![s] = @ \/ outcome # "ok"]
             /\ IF settled = "rejected"
                THEN /\ pc' = [pc EXCEPT ![s] = "exited"]
                     /\ exitCode' = [exitCode EXCEPT ![s] = 1]
                ELSE UNCHANGED <<pc, exitCode>>
    /\ UNCHANGED <<fileVars, noPauseMode, spotifyAvailable, child, originalSettings,
                   pendingExits, startFile, injected, restored, cleanupCalls,
                   cleanupPauses, sigints, lastHook, restoreFailed>>

\* A pending timeout whose delay has passed runs its callback.
TimerFire(s, outcomes) ==
    /\ UNCHANGED <<remoteVars, daemonVars, runVars, garbled>>
    /\ pc[s] = "running"
    /\ \E h \in Due(engine[s].timers), outcome \in outcomes :
         LET r == TimeoutCallback(engine[s], h)
             settled == FireAndForget(BackendCmd(Last(r.signals)), outcome)
         IN  /\ engine' = [engine EXCEPT ![s] = r.e]
             /\ lastSignal' = [lastSignal EXCEPT ![s] = Last(r.signals)]
             /\ lastEvent' = [lastEvent EXCEPT
                   ![s] = [kind |-> "timeout", signals |-> r.signals,
                           hadTimer |-> TRUE]]
             /\ backendFailed' = [backendFailed EXCEPT ![s] = @ \/ outcome # "ok"]
             /\ IF settled = "rejected"
                THEN /\ pc' = [pc EXCEPT ![s] = "exited"]
                     /\ exitCode' = [exitCode EXCEPT ![s] = 1]
                ELSE UNCHANGED <<pc, exitCode>>
    /\ idlePauses' = [idlePauses EXCEPT ![s] = Min(@ + 1, 2)]
    /\ burstPlays' = [burstPlays EXCEPT ![s] = 0]
    /\ UNCHANGED <<fileVars, noPauseMode, spotifyAvailable, child, originalSettings,
                   pendingExits, startFile, injected, restored, cleanupCalls,
                   cleanupPauses, sigints, sinceInput, rawTyped, lastHook,
                   restoreFailed>>

\* TickMs pass (the clock saturates at TYPING_IDLE_MS, where a timeout is due).
Age(t) == IF t < 0 THEN t ELSE Min(t + TickMs, TYPING_IDLE_MS)
Tick ==
    /\ UNCHANGED <<remoteVars, daemonVars, runVars, garbled>>
    /\ \E s \in Sessions :
          /\ pc[s] = "running"
          /\ \/ \E h \in TimerIds : Age(engine[s].timers[h]) # engine[s].timers[h]
             \/ engine[s].firstMessageSent /\ sinceInput[s] < TYPING_IDLE_MS
    /\ engine' = [s \in Sessions |->
          IF pc[s] = "running"
          THEN [engine[s] EXCEPT !.timers = [h \in TimerIds |-> Age(engine[s].timers[h])]]
          ELSE engine[s]]
    /\ sinceInput' = [s \in Sessions |->
          IF pc[s] = "running" /\ engine[s].firstMessageSent
          THEN Age(sinceInput[s]) ELSE sinceInput[s]]
    /\ UNCHANGED <<fileVars, procVars, startFile, injected, restored, cleanupCalls, cleanupPauses,
                   sigints, lastSignal, burstPlays, idlePauses, rawTyped, lastHook,
                   obsVars>>

\* ------------------------------------------------------------ shutdown
\* cleanup() up to its await, called by a handler that will exit with `code`.
\* writeOk: restoreHooks' write succeeds. When it throws, cleanup() and the
\* async handler awaiting it reject with nobody catching: the pause is never
\* reached and the unhandled rejection ends the process with code 1.
Cleanup(s, code, writeOk) ==
    /\ cleanupCalls' = [cleanupCalls EXCEPT ![s] = @ + 1]
    /\ engine' = [engine EXCEPT
          ![s].timers = clearTimeout(@, engine[s].typingTimer)]
    /\ pidFile' = {}
    /\ restoreFailed' = [restoreFailed EXCEPT ![s] = @ \/ ~writeOk]
    /\ IF writeOk
       THEN /\ settingsFile' = restoreHooks(settingsFile, originalSettings[s])
            /\ restored' = [restored EXCEPT ![s] = TRUE]
            /\ IF spotifyAvailable[s]
               THEN /\ cleanupPauses' = [cleanupPauses EXCEPT ![s] = @ + 1]
                    /\ lastSignal' = [lastSignal EXCEPT ![s] = "cleanup-pause"]
                    /\ pendingExits' = [pendingExits EXCEPT ![s] = @ \cup {code}]
                    /\ UNCHANGED <<pc, exitCode>>
               ELSE /\ pc' = [pc EXCEPT ![s] = "exited"]
                    /\ exitCode' = [exitCode EXCEPT ![s] = code]
                    /\ pendingExits' = [pendingExits EXCEPT ![s] = {}]
                    /\ UNCHANGED <<cleanupPauses, lastSignal>>
       ELSE /\ pc' = [pc EXCEPT ![s] = "exited"]
            /\ exitCode' = [exitCode EXCEPT ![s] = 1]
            /\ pendingExits' = [pendingExits EXCEPT ![s] = {}]
            /\ UNCHANGED <<settingsFile, restored, cleanupPauses, lastSignal>>

\* claude.onExit: the child ended with exitCode (none reads as 0).
ChildExit(s, writes) ==
    /\ UNCHANGED <<remoteVars, daemonVars, runVars, garbled>>
    /\ pc[s] = "running"
    /\ child[s] = "alive"
    /\ child' = [child EXCEPT ![s] = "dead"]
    /\ \E code \in {0, 2}, writeOk \in writes : Cleanup(s, code, writeOk)
    /\ UNCHANGED <<noPauseMode, spotifyAvailable, originalSettings, startFile,
                   injected, sigints, burstPlays, idlePauses, sinceInput,
                   rawTyped, lastHook, lastEvent, backendFailed>>

\* process.on('SIGINT'): the signal is forwarded with claude.kill('SIGINT').
Sigint(s, writes) ==
    /\ UNCHANGED <<remoteVars, daemonVars, runVars, garbled>>
    /\ pc[s] = "running"
    /\ sigints[s] < MaxSigints
    /\ sigints' = [sigints EXCEPT ![s] = @ + 1]
    /\ \E writeOk \in writes : Cleanup(s, 130, writeOk)
    /\ UNCHANGED <<noPauseMode, spotifyAvailable, child, originalSettings,
                   startFile, injected, burstPlays, idlePauses, sinceInput,
                   rawTyped, lastHook, lastEvent, backendFailed>>

\* The pause awaited by one cleanup() settles: its handler calls process.exit.
PauseDone(s) ==
    /\ UNCHANGED <<remoteVars, daemonVars, runVars, garbled>>
    /\ pc[s] = "running"
    /\ \E code \in pendingExits[s] :
          exitCode' = [exitCode EXCEPT ![s] = code]
    /\ pc' = [pc EXCEPT ![s] = "exited"]
    /\ pendingExits' = [pendingExits EXCEPT ![s] = {}]
    /\ UNCHANGED <<fileVars, noPauseMode, spotifyAvailable, child,
                   originalSettings, engine, histVars>>

\* ------------------------------------------------------------ hooks firing
FileContent(path) == IF path = PID_FILE THEN pidFile ELSE {}
LiveClaudes == {ChildPid(s) : s \in {x \in Sessions : child[x] = "alive"}}
                 \cup {UnwrappedClaude}

\* The claude process `c` reaches hook event `ev` and runs, with itself as the
\* parent, the command of every wrapper-marked group settings.json holds for it.
HookFire(c, ev) ==
    /\ UNCHANGED <<remoteVars, daemonVars, runVars, garbled>>
    /\ c \in LiveClaudes
    /\ settingsFile.kind = "json"
    /\ LET marked == SelectSeq(settingsFile.val.hooks[ev].groups, LAMBDA g : g.tuneIn)
           passed == SelectSeq(marked,
                        LAMBDA g : GuardPasses(FileContent(g.command.guard), c))
       IN  /\ marked # <<>>
           /\ lastHook' = [ppid |-> c, file |-> pidFile,
                           issued |-> [i \in 1..Len(passed) |-> passed[i].command.run]]
    /\ UNCHANGED <<fileVars, procVars, engine, startFile, injected, restored, cleanupCalls,
                   cleanupPauses, sigints, lastSignal, burstPlays, idlePauses,
                   sinceInput, rawTyped, obsVars>>

\* ------------------------------------------------------------ remote calls
\* exchangeCodeForToken: `tune-in auth` got a code and the service answered.
Auth ==
    /\ issued < MaxTokens
    /\ \E r \in {1, 2}, expires_in \in ExpiresIn \cup {NoExpiresIn} :
          tokenConfig' = [accessToken |-> issued + 1, refreshToken |-> r,
                          expiresAt |-> ExpiresAt(clock, expires_in)]
    /\ issued' = issued + 1
    /\ UNCHANGED <<wrapVars, daemonVars, runVars, clock, lastCall>>

\* clearConfig: `tune-in logout`.
Logout ==
    /\ tokenConfig # NoConfig
    /\ tokenConfig' = NoConfig
    /\ UNCHANGED <<wrapVars, daemonVars, runVars, clock, issued, lastCall>>

ClockTick ==
    /\ clock + ClockStepMs <= MaxClockMs
    /\ clock' = clock + ClockStepMs
    /\ UNCHANGED <<wrapVars, daemonVars, runVars, tokenConfig, issued, lastCall>>

\* One playSpotify() / pauseSpotify() call: getValidAccessToken, with the
\* refresh when it is due, then the player request. postOk: the token request
\* succeeded; latency: the time it took; status: the player request's answer.
RemoteCall(cmd) ==
    LET config == tokenConfig
        call == [NoCall EXCEPT !.cmd = cmd, !.at = clock, !.before = config,
                               !.after = config, !.respondedAt = clock]
    IN  /\ IF ~Authenticated(config)
           THEN /\ lastCall' = [call EXCEPT !.result = "not-authenticated"]
                /\ UNCHANGED <<tokenConfig, clock, issued>>
           ELSE IF NeedsRefresh(config, clock)
           THEN /\ issued < MaxTokens
                /\ \E postOk \in BOOLEAN, latency \in {0, ClockStepMs},
                      expires_in \in ExpiresIn, status \in Statuses :
                      LET response == [access_token |-> issued + 1,
                                       expires_in |-> expires_in]
                          saved == refreshAccessToken(config, response, clock + latency)
                      IN  /\ clock + latency <= MaxClockMs
                          /\ clock' = clock + latency
                          /\ IF postOk
                             THEN /\ issued' = issued + 1
                                  /\ tokenConfig' = saved
                                  /\ lastCall' = [call EXCEPT
                                        !.refreshed = TRUE,
                                        !.response = response,
                                        !.respondedAt = clock + latency,
                                        !.token = response.access_token,
                                        !.after = saved,
                                        !.status = status,
                                        !.result = PutResult(cmd, status)]
                             ELSE /\ status = 204 /\ expires_in = 200  \* neither is read
                                  /\ lastCall' = [call EXCEPT
                                        !.respondedAt = clock + latency,
                                        !.result = "refresh-failed"]
                                  /\ UNCHANGED <<tokenConfig, issued>>
           ELSE /\ \E status \in Statuses :
                      lastCall' = [call EXCEPT !.token = config.accessToken,
                                               !.status = status,
                                               !.result = PutResult(cmd, status)]
                /\ UNCHANGED <<tokenConfig, clock, issued>>
        /\ UNCHANGED <<wrapVars, daemonVars, runVars>>

\* ------------------------------------------------------------ daemon processes
\* A process is alive from the start of start() until it exits.
DaemonAlive(d) == d \in Daemons /\ dPc[d] # "off"

\* start(), lines 33-43: the pid file exists and names a live process: exit
\* with 1; it exists and names none: unlink it; then on to the write.
DaemonCheck(d) ==
    /\ dPc[d] = "off"
    /\ IF \E p \in dPidFile : DaemonAlive(p)
       THEN UNCHANGED <<dPidFile, dPc>>
       ELSE /\ dPidFile' = {}
            /\ dPc' = [dPc EXCEPT ![d] = "write"]
    /\ dDone' = [dDone EXCEPT ![d] = NoDone]
    /\ UNCHANGED <<wrapVars, remoteVars, runVars, dState, dInflight, dLastCmd,
                   dLastBackend, dFailed>>

\* start(), line 46: fs.writeFileSync(PID_FILE, process.pid.toString()).
DaemonWritePid(d) ==
    /\ dPc[d] = "write"
    /\ dPidFile' = {d}
    /\ dPc' = [dPc EXCEPT ![d] = "mode"]
    /\ UNCHANGED <<wrapVars, remoteVars, runVars, dState, dInflight, dLastCmd,
                   dLastBackend, dDone, dFailed>>

\* start(), lines 49-76: the mode is chosen and the socket is set up, or with
\* neither backend the process exits with 1.
DaemonMode(d) ==
    /\ dPc[d] = "mode"
    /\ \E spotifyRunning \in BOOLEAN, hasWebAPI \in BOOLEAN :
          IF spotifyRunning \/ hasWebAPI
          THEN /\ dPc' = [dPc EXCEPT ![d] = "serving"]
               /\ dState' = [dState EXCEPT
                     ![d] = [NewDaemonState(clock) EXCEPT
                               !.mode = IF spotifyRunning THEN "native"
                                        ELSE "web-api"]]
          ELSE /\ dPc' = [dPc EXCEPT ![d] = "off"]
               /\ UNCHANGED dState
    /\ dInflight' = [dInflight EXCEPT ![d] = <<>>]
    /\ dLastCmd' = [dLastCmd EXCEPT ![d] = "none"]
    /\ dLastBackend' = [dLastBackend EXCEPT ![d] = "none"]
    /\ dFailed' = [dFailed EXCEPT ![d] = FALSE]
    /\ UNCHANGED <<wrapVars, remoteVars, runVars, dPidFile, dDone>>

\* shutdown() on SIGINT / SIGTERM: a pause is fired when playing, the pid
\* file is unlinked when it exists, the process exits.
DaemonShutdown(d) ==
    /\ dPc[d] = "serving"
    /\ dLastBackend' = [dLastBackend EXCEPT
          ![d] = IF dState[d].playing THEN "pause" ELSE @]
    /\ dPidFile' = {}
    /\ dPc' = [dPc EXCEPT ![d] = "off"]
    /\ dInflight' = [dInflight EXCEPT ![d] = <<>>]
    /\ UNCHANGED <<wrapVars, remoteVars, runVars, dState, dLastCmd, dDone, dFailed>>

\* A 'data' event of a connection up to the handler's await: `status` is
\* answered at once; start / stop return at their guard and are answered OK,
\* or issue their backend call and wait for it. At most `cap` handlers wait.
DaemonReceive(d, cmd, cap) ==
    /\ dPc[d] = "serving"
    /\ Len(dInflight[d]) < cap
    /\ IF cmd = "status"
       THEN /\ dDone' = [dDone EXCEPT
                  ![d] = [NoDone EXCEPT !.cmd = cmd, !.before = dState[d],
                                        !.after = dState[d], !.answer = "state"]]
            /\ UNCHANGED <<dInflight, dLastCmd, dLastBackend>>
       ELSE /\ dLastCmd' = [dLastCmd EXCEPT ![d] = cmd]
            /\ IF HandlerIssues(cmd, dState[d])
               THEN /\ dInflight' = [dInflight EXCEPT
                          ![d] = Append(@, [cmd |-> cmd, before |-> dState[d]])]
                    /\ dLastBackend' = [dLastBackend EXCEPT
                          ![d] = IF cmd = "start" THEN "play" ELSE "pause"]
                    /\ UNCHANGED dDone
               ELSE /\ dDone' = [dDone EXCEPT
                          ![d] = [NoDone EXCEPT !.cmd = cmd, !.before = dState[d],
                                                !.after = dState[d], !.answer = "OK"]]
                    /\ UNCHANGED <<dInflight, dLastBackend>>
    /\ UNCHANGED <<wrapVars, remoteVars, runVars, dPidFile, dPc, dState, dFailed>>

\* The backend call of a waiting handler settles: the rest of the handler
\* runs and the connection is answered OK.
DaemonComplete(d) ==
    /\ dPc[d] = "serving"
    /\ \E i \in 1..Len(dInflight[d]) :
         LET h == dInflight[d][i]
         IN  \E outcome \in DaemonOutcomes(dState[d].mode) :
             LET result == DaemonBackend(dState[d].mode, h.cmd, outcome)
                 after == HandlerUpdate(dState[d], h.cmd, result, clock)
             IN  /\ dState' = [dState EXCEPT ![d] = after]
                 /\ dInflight' = [dInflight EXCEPT
                       ![d] = SubSeq(@, 1, i - 1) \o SubSeq(@, i + 1, Len(@))]
                 /\ dDone' = [dDone EXCEPT
                       ![d] = [cmd |-> h.cmd, issued |-> TRUE, before |-> h.before,
                               after |-> after, succeeded |-> result.succeeded,
                               answer |-> "OK"]]
                 /\ dFailed' = [dFailed EXCEPT ![d] = @ \/ ~result.succeeded]
    /\ UNCHANGED <<wrapVars, remoteVars, runVars, dPidFile, dPc, dLastCmd, dLastBackend>>

\* ------------------------------------------------------------ run mode
\* Exit codes of the wrapped command as the 'exit' event reports them; a
\* command ended by a signal reports null, which `code || 0` turns into 0.
ChildCodes == {0, 1, 2, 127}

\* pauseMusic(): with musicStarted unset it returns with no backend call, so
\* the handler awaiting it goes on to process.exit in the same turn.
PauseMusicAwaits(musicStarted) == musicStarted

\* runCommand, the choice of the mode: the desktop player when it runs, else
\* the Web API when loadConfig() finds both tokens, else exit 1.
RunLaunch ==
    /\ runPc = "idle"
    /\ \E spotifyRunning \in BOOLEAN :
          IF ~spotifyRunning /\ ~Authenticated(tokenConfig)
          THEN /\ runPc' = "exited"
               /\ runExit' = 1
               /\ UNCHANGED runLocal
          ELSE /\ runPc' = "starting"
               /\ runLocal' = spotifyRunning
               /\ UNCHANGED runExit
    /\ UNCHANGED <<wrapVars, remoteVars, daemonVars, runMusic, runPending,
                   runSigints, runChild, runCode, runPauses>>

\* runCommand, the start of the music and the spawn of the command through
\* the shell: musicStarted is set when playSpotifyNative() returned true or
\* playSpotify() returned without throwing; a failure is reported and the
\* command is run all the same.
RunStartMusic ==
    /\ runPc = "starting"
    /\ \E outcome \in AnyBackend, status \in Statuses :
          runMusic' = IF runLocal
                      THEN playSpotifyNative(outcome) = "true"
                      ELSE PutResult("play", status) # "thrown"
    /\ runPc' = "running"
    /\ runChild' = "alive"
    /\ UNCHANGED <<wrapVars, remoteVars, daemonVars, runPending, runExit,
                   runSigints, runLocal, runCode, runPauses>>

\* A handler of the run-mode wrapper that will exit with `code` calls
\* pauseMusic() and awaits it.
RunHandler(code) ==
    IF PauseMusicAwaits(runMusic)
    THEN /\ runPending' = runPending \cup {code}
         /\ runPauses' = runPauses + 1
         /\ UNCHANGED <<runPc, runExit>>
    ELSE /\ runPc' = "exited"
         /\ runExit' = code
         /\ runPending' = {}
         /\ UNCHANGED runPauses

\* child.on('exit'): process.exit(code || 0) after the pause.
RunChildExit ==
    /\ runPc = "running"
    /\ runChild = "alive"
    /\ runChild' = "exited"
    /\ \E code \in ChildCodes :
          /\ runCode' = code
          /\ RunHandler(code)
    /\ UNCHANGED <<wrapVars, remoteVars, daemonVars, runMusic, runSigints, runLocal>>

\* child.on('error'): the command could not be run; process.exit(1) after
\* the pause.
RunChildError ==
    /\ runPc = "running"
    /\ runChild = "alive"
    /\ runChild' = "error"
    /\ runCode' = 1
    /\ RunHandler(1)
    /\ UNCHANGED <<wrapVars, remoteVars, daemonVars, runMusic, runSigints, runLocal>>

\* process.on('SIGINT'): process.exit(130) after the pause.
RunSigint ==
    /\ runPc = "running"
    /\ runSigints < MaxSigints
    /\ runSigints' = runSigints + 1
    /\ RunHandler(130)
    /\ UNCHANGED <<wrapVars, remoteVars, daemonVars, runMusic, runLocal, runChild,
                   runCode>>

\* The pause awaited by one handler settles: that handler calls process.exit.
RunPauseDone ==
    /\ runPc = "running"
    /\ \E code \in runPending : runExit' = code
    /\ runPc' = "exited"
    /\ runPending' = {}
    /\ UNCHANGED <<wrapVars, remoteVars, daemonVars, runMusic, runSigints, runLocal,
                   runChild, runCode, runPauses>>

\* ------------------------------------------------------------ specifications
\* Outcomes of a write to settings.json: it may throw (read-only file, full
\* disk), or the disk is taken to be sound.
AnyWrite == BOOLEAN
SoundWrite == {TRUE}

\* One wrapper session with its engine, its timers and the passage of time.
Next ==
    \/ Launch(1) \/ SpawnFails(1) \/ SpawnAndInject(1, AnyWrite)
    \/ Stdin(1, Chunks, SoundBackend) \/ TimerFire(1, SoundBackend) \/ Tick
    \/ ChildExit(1, AnyWrite) \/ Sigint(1, AnyWrite) \/ PauseDone(1)

Spec == Init /\ [][Next]_vars

\* The same session on a sound disk: no write to settings.json throws.
NextSound ==
    \/ Launch(1) \/ SpawnFails(1) \/ SpawnAndInject(1, SoundWrite)
    \/ Stdin(1, Chunks, SoundBackend) \/ TimerFire(1, SoundBackend) \/ Tick
    \/ ChildExit(1, SoundWrite) \/ Sigint(1, SoundWrite) \/ PauseDone(1)

SpecSound == Init /\ [][NextSound]_vars

\* Two wrapper sessions on one host sharing settings.json and PID_FILE.
NextHost ==
    \E s \in Sessions :
        \/ Launch(s) \/ SpawnFails(s) \/ SpawnAndInject(s, SoundWrite)
        \/ ChildExit(s, SoundWrite) \/ Sigint(s, SoundWrite) \/ PauseDone(s)

SpecHost == Init /\ [][NextHost]_vars

\* The same host with the hook events of the claude processes on it.
NextHooks ==
    \/ \E s \in Sessions :
          \/ Launch(s) \/ SpawnFails(s) \/ SpawnAndInject(s, AnyWrite)
          \/ ChildExit(s, AnyWrite) \/ Sigint(s, AnyWrite) \/ PauseDone(s)
    \/ \E c \in {ChildPid(s) : s \in Sessions} \cup {UnwrappedClaude}, ev \in Events :
          HookFire(c, ev)

SpecHooks == Init /\ [][NextHooks]_vars

\* One wrapper session from every starting state of the settings file.
NextFiles ==
    \/ Launch(1) \/ SpawnFails(1) \/ SpawnAndInject(1, AnyWrite)
    \/ ChildExit(1, AnyWrite) \/ Sigint(1, AnyWrite) \/ PauseDone(1)

SpecFiles == InitFiles /\ [][NextFiles]_vars

\* Spec with the event loop's guarantee that a due timeout's callback runs.
SpecFair == Spec /\ WF_vars(TimerFire(1, SoundBackend))

\* One session on a sound disk whose backend calls may fail.
NextBackend ==
    \/ Launch(1) \/ SpawnFails(1) \/ SpawnAndInject(1, SoundWrite)
    \/ Stdin(1, Chunks, AnyBackend) \/ TimerFire(1, AnyBackend) \/ Tick
    \/ ChildExit(1, SoundWrite) \/ Sigint(1, SoundWrite) \/ PauseDone(1)

SpecBackend == Init /\ [][NextBackend]_vars

\* The remote backend: authorisation, the passage of time and player calls.
NextRemote ==
    \/ Auth \/ Logout \/ ClockTick
    \/ RemoteCall("play") \/ RemoteCall("pause")

SpecRemote == InitWith({AbsentFile}) /\ [][NextRemote]_vars

\* Two daemon processes started on one host.
NextDaemonStart ==
    \/ ClockTick
    \/ \E d \in Daemons :
          \/ DaemonCheck(d) \/ DaemonWritePid(d) \/ DaemonMode(d)
          \/ DaemonShutdown(d)

SpecDaemonStart == InitWith({AbsentFile}) /\ [][NextDaemonStart]_vars

\* One daemon that handles its commands one at a time.
NextDaemonSeq ==
    \/ ClockTick
    \/ DaemonCheck(1) \/ DaemonWritePid(1) \/ DaemonMode(1) \/ DaemonShutdown(1)
    \/ \E cmd \in {"start", "stop", "status"} : DaemonReceive(1, cmd, 1)
    \/ DaemonComplete(1)

SpecDaemonSeq == InitWith({AbsentFile}) /\ [][NextDaemonSeq]_vars

\* One daemon whose connections' handlers may overlap.
NextDaemon ==
    \/ ClockTick
    \/ DaemonCheck(1) \/ DaemonWritePid(1) \/ DaemonMode(1) \/ DaemonShutdown(1)
    \/ \E cmd \in {"start", "stop", "status"} : DaemonReceive(1, cmd, MaxInFlight)
    \/ DaemonComplete(1)

SpecDaemon == InitWith({AbsentFile}) /\ [][NextDaemon]_vars

\* The run-mode wrapper around one command, on a host where `tune-in auth`
\* and `tune-in logout` are run as well.
NextRun ==
    \/ Auth \/ Logout
    \/ RunLaunch \/ RunStartMusic \/ RunChildExit \/ RunChildError \/ RunSigint \/ RunPauseDone

SpecRun == InitWith({AbsentFile}) /\ [][NextRun]_vars

\* One session whose stdin delivers chunks of any bytes, up to its end.
NextForward ==
    \/ Launch(1) \/ SpawnAndInject(1, SoundWrite)
    \/ Stdin(1, RawChunks, SoundBackend)
    \/ ChildExit(1, SoundWrite) \/ PauseDone(1)

SpecForward == Init /\ [][NextForward]_vars

\* ------------------------------------------------------------ properties
Exited(s) == pc[s] = "exited"
\* From hook injection until cleanup is first entered.
Live(s) == injected[s] /\ pc[s] = "running" /\ cleanupCalls[s] = 0
\* The engine of a live session that may signal (pause-enabled, player found).
Tracking(s) == Live(s) /\ ~noPauseMode[s] /\ spotifyAvailable[s]

\* C1: a wrapper that injected its hooks has run cleanup() exactly once when
\* it terminates, whatever was typed and whichever handlers ran.
C1_CleanupExactlyOnce ==
    \A s \in Sessions : (Exited(s) /\ injected[s]) => cleanupCalls[s] = 1

C3_FileAsBeforeInjection ==
    restored[1] => settingsFile = startFile

\* C4: a wrapper that injected its hooks terminates only with the settings
\* restored and, when it has a player to command, a pause issued by cleanup.
C4_RestoredAndPausedAtExit ==
    \A s \in Sessions :
        (Exited(s) /\ injected[s]) =>
            /\ settingsFile = writeSettings(originalSettings[s])
            /\ spotifyAvailable[s] => cleanupPauses[s] >= 1

\* C5: after two wrapper sessions that both injected and both restored have
\* exited, the settings file holds no wrapper-marked group and the value it
\* held before the first of them started.
C5_NoLeftoverHooks ==
    (\A s \in Sessions : Exited(s) /\ injected[s] /\ restored[s]) =>
        /\ ~HasTuneIn(settingsFile)
        /\ readSettings(settingsFile) = readSettings(startFile)

\* C6: a fired hook runs its player command only when PID_FILE held the pid of
\* the claude process that fired it; with the file missing or naming another
\* session it runs nothing.
C6_GuardedHook ==
    lastHook.issued # <<>> => lastHook.file = {lastHook.ppid}

\* Session 1's claude fired a hook while PID_FILE named session 2: nothing ran.
C6_Witness ==
    /\ lastHook.ppid = ChildPid(1)
    /\ lastHook.file = {ChildPid(2)}
    /\ lastHook.issued = <<>>

\* C7: while a session is live, PID_FILE exists and holds its child's pid.
C7_PidFileNamesLiveSession ==
    \A s \in Sessions : Live(s) => pidFile = {ChildPid(s)}

\* C8: before the first submission the engine has counted nothing, armed no
\* timer and issued no play, however many printable bytes were typed.
C8_NothingBeforeFirstSubmission ==
    \A s \in Sessions :
        ~engine[s].firstMessageSent =>
            /\ engine[s].charCount = 0
            /\ engine[s].typingTimer = 0
            /\ Pending(engine[s].timers) = {}
            /\ burstPlays[s] = 0
            /\ lastSignal[s] \notin {"enter-play", "typing-play", "idle-pause"}

C8_Witness ==
    /\ pc[1] = "running"
    /\ ~engine[1].firstMessageSent
    /\ rawTyped[1] > TYPING_PLAY_THRESHOLD
    /\ spotifyAvailable[1] /\ ~noPauseMode[1]

\* C9: after the first submission, a burst whose printable count has reached
\* the threshold has issued exactly one typing play, however it was chunked.
C9_OnePlayPerBurst ==
    \A s \in Sessions :
        (Tracking(s) /\ engine[s].firstMessageSent
            /\ engine[s].charCount >= TYPING_PLAY_THRESHOLD)
        => burstPlays[s] = 1

\* C10: with the counter at or above the threshold one timeout is pending,
\* due TYPING_IDLE_MS after the last counted input; a pause is issued only
\* when that time has passed with no counted input, once, leaving the counter
\* at 0 and no timeout pending; and a due timeout does issue it unless input
\* arrives first or the session ends.
C10_Armed ==
    \A s \in Sessions :
        (Tracking(s) /\ engine[s].firstMessageSent
            /\ engine[s].charCount >= TYPING_PLAY_THRESHOLD)
        => /\ Pending(engine[s].timers) = {engine[s].typingTimer}
           /\ engine[s].timers[engine[s].typingTimer] = sinceInput[s]
C10_Paused ==
    \A s \in Sessions :
        /\ idlePauses[s] <= 1
        /\ idlePauses[s] = 1 =>
              /\ sinceInput[s] >= TYPING_IDLE_MS
              /\ engine[s].charCount = 0
              /\ Pending(engine[s].timers) = {}
C10_Fires ==
    \A s \in {1} :
        (Tracking(s) /\ Due(engine[s].timers) # {})
        ~> (idlePauses[s] = 1 \/ sinceInput[s] < TYPING_IDLE_MS \/ ~Tracking(s))
C10_IdlePause == [](C10_Armed /\ C10_Paused) /\ C10_Fires

\* The idle pause was issued: the counter is back at 0.
C10_Witness ==
    /\ Tracking(1)
    /\ idlePauses[1] = 1
    /\ lastSignal[1] = "idle-pause"
    /\ engine[1].charCount = 0

\* C11: after the handler ran on a chunk holding CR or LF, whatever the engine
\* state before it, firstMessageSent is set, charCount is 0, no timeout is
\* pending and, in pause-enabled mode with a player, the handler itself issued
\* exactly one play.
C11_Submission ==
    \A s \in Sessions :
        lastEvent[s].kind = "enter" =>
            /\ engine[s].firstMessageSent
            /\ engine[s].charCount = 0
            /\ engine[s].typingTimer = 0
            /\ Pending(engine[s].timers) = {}
            /\ (spotifyAvailable[s] /\ ~noPauseMode[s])
                  => lastEvent[s].signals = <<"enter-play">>

\* A submission that cancelled a pending timeout and played.
C11_Witness ==
    /\ lastEvent[1].kind = "enter"
    /\ lastEvent[1].hadTimer
    /\ lastEvent[1].signals = <<"enter-play">>
    /\ pc[1] = "running"

\* C12 as claimed: in no-pause mode with a player, a submission issues a play.
C12_NoPausePlayOnSubmission ==
    \A s \in Sessions :
        (noPauseMode[s] /\ spotifyAvailable[s] /\ lastEvent[s].kind = "enter")
        => lastEvent[s].signals = <<"enter-play">>

\* C12 as amended: in no-pause mode with a player, the play at launch is the
\* only command the wrapper issues before cleanup: a submission issues none
\* (it still sets the flag and resets the counter) and no idle pause is issued.
C12_NoPauseLaunchPlayOnly ==
    \A s \in Sessions :
        (noPauseMode[s] /\ spotifyAvailable[s] /\ pc[s] # "idle") =>
            /\ lastSignal[s] \in {"launch-play", "cleanup-pause"}
            /\ cleanupCalls[s] = 0 => lastSignal[s] = "launch-play"
            /\ lastEvent[s].signals = <<>>
            /\ idlePauses[s] = 0
            /\ lastEvent[s].kind = "enter" =>
                  engine[s].firstMessageSent /\ engine[s].charCount = 0

\* A submission after typing in a live no-pause session with a player.
C12_Witness ==
    /\ noPauseMode[1] /\ spotifyAvailable[1]
    /\ Live(1)
    /\ lastEvent[1].kind = "enter"
    /\ lastSignal[1] = "launch-play"

\* C13: in no-pause mode the engine never arms a timeout and never issues an
\* idle pause, whatever is typed and however long the user waits, and the
\* injected settings hold the Stop and Notification lists of the user's file
\* unchanged (the play hook on PreToolUse is the only group added).
C13_NoPauseNoTimerNoPauseHook ==
    \A s \in {1} :
        (noPauseMode[s] /\ pc[s] # "idle") =>
            /\ Pending(engine[s].timers) = {}
            /\ engine[s].typingTimer = 0
            /\ idlePauses[s] = 0
            /\ lastSignal[s] # "idle-pause"
            /\ Live(s) =>
                  /\ \A ev \in {"Stop", "Notification"} :
                        readSettings(settingsFile).hooks[ev]
                            = readSettings(startFile).hooks[ev]
                  /\ Last(readSettings(settingsFile).hooks["PreToolUse"].groups)
                        = TuneInGroup(spotifyPlayCmd(PID_FILE))

\* No-pause mode, typed past the threshold, then idle for TYPING_IDLE_MS.
C13_Witness ==
    /\ noPauseMode[1] /\ spotifyAvailable[1] /\ Live(1)
    /\ engine[1].firstMessageSent
    /\ engine[1].charCount > TYPING_PLAY_THRESHOLD
    /\ sinceInput[1] >= TYPING_IDLE_MS

\* C14 as claimed: in a freshly launched pause-enabled session with a player,
\* the third printable character typed issues a play.
C14_FreshSessionPlays ==
    \A s \in Sessions :
        (Tracking(s) /\ ~engine[s].firstMessageSent
            /\ rawTyped[s] = TYPING_PLAY_THRESHOLD)
        => lastSignal[s] = "typing-play"

\* C14 as amended: in a pause-enabled session with a player, after the first
\* submission: with one or two characters typed nothing was signalled and no
\* timeout is armed; the step that takes the counter from 2 to 3 issues
\* exactly one play and arms the timeout; the timeout's callback issues one
\* pause and leaves the counter at 0, TYPING_IDLE_MS after the last counted
\* input; and it does run once that time has passed, unless input or the
\* session's end comes first.
C14_Silent ==
    (Tracking(1) /\ engine[1].firstMessageSent
        /\ engine[1].charCount \in 1..(TYPING_PLAY_THRESHOLD - 1))
    => /\ lastEvent[1] = [kind |-> "typing", signals |-> <<>>, hadTimer |-> FALSE]
       /\ burstPlays[1] = 0
       /\ Pending(engine[1].timers) = {}
C14_Paused ==
    (Tracking(1) /\ lastEvent[1].kind = "timeout")
    => /\ lastEvent[1].signals = <<"idle-pause">>
       /\ engine[1].charCount = 0
       /\ sinceInput[1] >= TYPING_IDLE_MS
       /\ idlePauses[1] = 1
C14_ThirdChar ==
    (Tracking(1) /\ engine[1].firstMessageSent
        /\ engine[1].charCount = TYPING_PLAY_THRESHOLD - 1
        /\ engine'[1].charCount = TYPING_PLAY_THRESHOLD)
    => /\ lastEvent'[1].signals = <<"typing-play">>
       /\ burstPlays'[1] = 1
       /\ Pending(engine'[1].timers) = {engine'[1].typingTimer}
       /\ engine'[1].timers[engine'[1].typingTimer] = 0
C14_Waits ==
    (Tracking(1) /\ engine[1].charCount = TYPING_PLAY_THRESHOLD
        /\ sinceInput[1] >= TYPING_IDLE_MS)
    ~> \/ lastEvent[1].kind = "timeout" /\ engine[1].charCount = 0
       \/ sinceInput[1] < TYPING_IDLE_MS
       \/ ~Tracking(1)
C14_EndToEnd ==
    [](C14_Silent /\ C14_Paused) /\ [][C14_ThirdChar]_vars /\ C14_Waits

\* The scenario's end: the timeout has paused after the typing play.
C14_Witness ==
    /\ Tracking(1)
    /\ lastEvent[1] = [kind |-> "timeout", signals |-> <<"idle-pause">>,
                        hadTimer |-> TRUE]
    /\ lastSignal[1] = "idle-pause"
    /\ sinceInput[1] >= TYPING_IDLE_MS
    /\ burstPlays[1] = 0

\* C15: at most one timeout is pending, and it is the one typingTimer holds;
\* after a submission none is; a pause comes only from the timeout armed by
\* the last counted input, TYPING_IDLE_MS after it and once: a timeout that
\* was cleared or has fired issues nothing later.
C15_OneTimer ==
    \A s \in Sessions :
        /\ Cardinality(Pending(engine[s].timers)) <= 1
        /\ Pending(engine[s].timers) \subseteq {engine[s].typingTimer}
        /\ lastEvent[s].kind = "enter" => Pending(engine[s].timers) = {}
        /\ lastEvent[s].kind = "timeout" =>
              /\ Pending(engine[s].timers) = {}
              /\ sinceInput[s] >= TYPING_IDLE_MS
        /\ idlePauses[s] <= 1

\* Typing went on while a timeout was pending: it was replaced, not added to.
C15_Witness ==
    /\ Tracking(1)
    /\ lastEvent[1].kind = "typing" /\ lastEvent[1].hadTimer
    /\ engine[1].charCount > TYPING_PLAY_THRESHOLD
    /\ Pending(engine[1].timers) = {engine[1].typingTimer}
    /\ engine[1].timers[engine[1].typingTimer] = 0

\* C16: a wrapper that received SIGINT after injecting its hooks has, when it
\* terminates, restored the settings, deleted PID_FILE and forced a pause on
\* its player, and its exit code is 130, however the SIGINT handler and the
\* child's exit notification interleave.
C16_InterruptExits130 ==
    \A s \in Sessions :
        (Exited(s) /\ injected[s] /\ sigints[s] >= 1) =>
            /\ restored[s]
            /\ pidFile = {}
            /\ spotifyAvailable[s] => cleanupPauses[s] >= 1
            /\ exitCode[s] = 130

\* C17: after a backend call of the interactive session failed, the wrapper
\* ends only through cleanup with the code of the handler that ran it, and
\* the engine goes on as the handlers leave it: a submission leaves the flag
\* set, the counter at 0 and no timeout; a timeout leaves the counter at 0;
\* a counter at or above the threshold has its one timeout armed.
C17_BackendFailureContained ==
    \A s \in Sessions :
        backendFailed[s] =>
            /\ Exited(s) => cleanupCalls[s] >= 1 /\ exitCode[s] \in {0, 2, 130}
            /\ lastEvent[s].kind = "enter" =>
                  /\ engine[s].firstMessageSent
                  /\ engine[s].charCount = 0
                  /\ Pending(engine[s].timers) = {}
            /\ lastEvent[s].kind = "timeout" =>
                  engine[s].charCount = 0 /\ Pending(engine[s].timers) = {}
            /\ (Tracking(s) /\ engine[s].charCount >= TYPING_PLAY_THRESHOLD) =>
                  Pending(engine[s].timers) = {engine[s].typingTimer}

\* A backend call failed and the session is live, its last chunk handled.
C17_Witness ==
    /\ backendFailed[1]
    /\ Live(1)
    /\ lastEvent[1].kind = "typing"
    /\ lastEvent[1].signals = <<"typing-play">>
    /\ lastEvent[1].hadTimer = FALSE
    /\ idlePauses[1] = 0
    /\ engine[1].charCount = TYPING_PLAY_THRESHOLD

\* C18: a wrapper that ended at startup (the spawn threw, or the write of the
\* injected settings threw) ended with a non-zero code before handling any
\* input, and left no wrapper-marked hook group in the settings and no
\* PID_FILE.
C18_StartupFailureLeavesNothing ==
    \A s \in {1} :
        (Exited(s) /\ ~injected[s]) =>
            /\ exitCode[s] > 0
            /\ lastEvent[s].kind = "none"
            /\ ~HasTuneIn(settingsFile)
            /\ pidFile = {}

\* C19: a wrapper whose restoreHooks write threw during cleanup still forced
\* the pause on its player and ended with the code of the handler that was
\* running: the child's exit code, or 130 on SIGINT.
C19_RestoreFailureContained ==
    \A s \in {1} :
        (Exited(s) /\ restoreFailed[s]) =>
            /\ spotifyAvailable[s] => cleanupPauses[s] >= 1
            /\ exitCode[s] \in {0, 2, 130}
            /\ sigints[s] = 0 => exitCode[s] \in {0, 2}

\* C20: a playSpotify / pauseSpotify call that reached the player request,
\* made when the stored expiry was absent or less than 5 minutes ahead,
\* refreshed first: the request carried the access token the service had just
\* issued, and the saved config holds that token, the expiry computed from
\* the response and the refresh token it held before; made when the expiry
\* was 5 minutes or more ahead, it did not refresh: the request carried the
\* stored token and the config is as it was.
C20_RefreshBeforeRequest ==
    lastCall.result \in {"ok", "warned", "ignored", "thrown"} =>
        IF lastCall.before.expiresAt = 0
              \/ lastCall.before.expiresAt - lastCall.at < 5 * 60 * 1000
        THEN /\ lastCall.refreshed
             /\ lastCall.token = lastCall.response.access_token
             /\ lastCall.token # lastCall.before.accessToken
             /\ lastCall.after =
                   [accessToken |-> lastCall.response.access_token,
                    refreshToken |-> lastCall.before.refreshToken,
                    expiresAt |-> lastCall.respondedAt
                                    + lastCall.response.expires_in * 1000]
        ELSE /\ ~lastCall.refreshed
             /\ lastCall.token = lastCall.before.accessToken
             /\ lastCall.after = lastCall.before

\* A call made with the expiry exactly 5 minutes ahead: the stored token went
\* out and nothing was refreshed.
C20_Witness ==
    /\ lastCall.result = "ok"
    /\ lastCall.before.expiresAt = lastCall.at + RefreshMarginMs
    /\ ~lastCall.refreshed
    /\ lastCall.token = lastCall.before.accessToken

\* C21: a player request answered 404 or 403 makes playSpotify return
\* normally after a warning and pauseSpotify return normally in silence; a
\* request that succeeded returns normally; every other failure, a missing
\* response included, is thrown to the caller.
C21_SoftFailures ==
    lastCall.token # 0 =>
        /\ lastCall.status \in {403, 404} =>
              lastCall.result = (IF lastCall.cmd = "play" THEN "warned" ELSE "ignored")
        /\ lastCall.status = 204 => lastCall.result = "ok"
        /\ lastCall.status \notin {204, 403, 404} => lastCall.result = "thrown"

\* A pause answered 403: swallowed with no output.
C21_Witness ==
    /\ lastCall.cmd = "pause"
    /\ lastCall.token # 0
    /\ lastCall.status = 403
    /\ lastCall.result = "ignored"

\* C22: at most one daemon process is past the check of start(), and the pid
\* file names the daemon that is serving, however two daemons that start
\* together interleave.
C22_OneDaemonServing ==
    /\ Cardinality({d \in Daemons : dPc[d] \in {"mode", "serving"}}) <= 1
    /\ \A d \in Daemons : dPc[d] = "serving" => dPidFile = {d}

\* C23: a daemon that handles its commands one at a time answers every start
\* and stop with OK; the command went to the backend exactly when it was a
\* start received while not playing or a stop received while playing; and a
\* command that did not left playing, mode and lastUpdate as they were.
C23_OneAtATime ==
    \A d \in {1} :
        dDone[d].cmd \in {"start", "stop"} =>
            /\ dDone[d].answer = "OK"
            /\ dDone[d].issued <=>
                  \/ dDone[d].cmd = "start" /\ ~dDone[d].before.playing
                  \/ dDone[d].cmd = "stop" /\ dDone[d].before.playing
            /\ ~dDone[d].issued =>
                  dDone[d].after = dDone[d].before
            /\ (~dDone[d].issued /\ dPc[d] = "serving") =>
                  dState[d] = dDone[d].before

\* A start received while playing: answered OK, nothing issued.
C23_Witness ==
    /\ dPc[1] = "serving"
    /\ dDone[1].cmd = "start"
    /\ dDone[1].answer = "OK"
    /\ ~dDone[1].issued
    /\ dDone[1].before.playing
    /\ dLastBackend[1] = "play"

\* C28: once every handler has finished and no backend call has failed, the
\* daemon's state follows the last command received: not playing, with a
\* pause as the last backend command, after a stop; playing, with a play as
\* the last backend command, after a start.
C28_LastCommandWins ==
    \A d \in {1} :
        (dPc[d] = "serving" /\ dInflight[d] = <<>> /\ ~dFailed[d]) =>
            /\ dLastCmd[d] = "stop" =>
                  /\ ~dState[d].playing
                  /\ dLastBackend[d] \in {"pause", "none"}
            /\ dLastCmd[d] = "start" =>
                  /\ dState[d].playing
                  /\ dLastBackend[d] = "play"

\* C29: a handler whose backend call did not succeed leaves playing and
\* lastUpdate as they were; playing is set only by a play that succeeded
\* and cleared only by a pause that succeeded.
C29_ChangeOnlyOnSuccess ==
    \A d \in {1} :
        (dDone[d].issued /\ ~dDone[d].succeeded) =>
            /\ dDone[d].after.playing = dDone[d].before.playing
            /\ dDone[d].after.lastUpdate = dDone[d].before.lastUpdate

\* C24: the run-mode wrapper ends with 130 when it was interrupted, else with
\* 1 when the command could not be run or no backend was available, else
\* with the command's own exit code, however the SIGINT handler and the
\* handler of the child's end interleave.
C24_RunExitCodes ==
    runPc = "exited" =>
        runExit = IF runSigints >= 1 THEN 130
                  ELSE IF runChild \in {"none", "error"} THEN 1
                  ELSE runCode

\* C26: while the wrapper's hooks are installed, the settings file holds the
\* user's settings unchanged, the user's PreToolUse groups in their order
\* followed by exactly one marked guarded-play group, and, for Stop and
\* Notification, the user's groups followed by exactly one marked
\* guarded-pause group in pause-enabled mode and the user's list as it was in
\* no-pause mode.
C26_InjectAppends ==
    Live(1) =>
        LET original == readSettings(startFile)
            updated == readSettings(settingsFile)
        IN  /\ settingsFile.kind = "json"
            /\ updated.other = original.other
            /\ updated.hooks["PreToolUse"].groups
                  = Append(original.hooks["PreToolUse"].groups,
                           TuneInGroup(spotifyPlayCmd(PID_FILE)))
            /\ \A ev \in {"Stop", "Notification"} :
                  IF noPauseMode[1]
                  THEN updated.hooks[ev] = original.hooks[ev]
                  ELSE updated.hooks[ev].groups
                         = Append(original.hooks[ev].groups,
                                  TuneInGroup(spotifyPauseCmd(PID_FILE)))

\* Hooks installed in pause-enabled mode over a file with the user's own
\* PreToolUse and Stop groups.
C26_Witness ==
    /\ Live(1) /\ ~noPauseMode[1]
    /\ startFile \in WellFormedFiles
    /\ startFile.val.hooks["PreToolUse"].groups # <<>>
    /\ startFile.val.hooks["Stop"].groups # <<>>
    /\ Len(readSettings(settingsFile).hooks["Stop"].groups) = 2

\* C27: once cleanup() has been called in a session with a player, the forced
\* pause stays the last playback command the wrapper issued and no timeout is
\* pending, whatever chunk arrives while the pause is awaited and after the
\* wrapper has terminated.
C27_NothingAfterCleanup ==
    \A s \in {1} :
        (cleanupCalls[s] >= 1 /\ spotifyAvailable[s]) =>
            /\ lastSignal[s] = "cleanup-pause"
            /\ Pending(engine[s].timers) = {}

\* C25: every chunk read from stdin reaches the child as it was read, and a
\* chunk with no printable byte and no 0x0d / 0x0a leaves firstMessageSent,
\* charCount and the timeouts as they were and issues no signal, in every
\* state of the engine.
C25_ForwardedUnmodified ==
    \A s \in {1} :
        /\ garbled[s] = NoGarble
        /\ \A data \in RawChunks :
              (Printable(data) = <<>> /\ ~HasEnter(data)) =>
                  StdinHandler(engine[s], data, noPauseMode[s], spotifyAvailable[s])
                      = [e |-> engine[s], signals |-> <<>>]

====
